---- MODULE Spec2Model ----
(***************************************************************************)
(* KaitaiStream (src/KaitaiStream.js): a read cursor over an ArrayBuffer.  *)
(*                                                                         *)
(* An ArrayBuffer is a sequence of bytes; JavaScript index k is element    *)
(* k + 1 of the sequence.  A DataView is a record of its buffer, its       *)
(* byteOffset and its byteLength.  Every call records what it was given,   *)
(* the cursor it started from and how it ended (returned value or thrown   *)
(* error) in the variable last.                                            *)
(***************************************************************************)
EXTENDS Integers, Sequences, FiniteSets, TLC

VARIABLES _buffer, _byteOffset, _byteLength, _dataView, position, last

vars == <<_buffer, _byteOffset, _byteLength, _dataView, position, last>>

(***************************************************************************)
(* Bounds of the model.                                                    *)
(***************************************************************************)
\* largest size handed to the constructor
MaxSize == 2
\* largest byteOffset handed to the constructor
MaxOffset == 1
\* largest finite position handed to seek (the smallest is -1)
MaxSeek == 9
\* largest length handed to readBytes / readStrByteLimit
MaxLen == 2
\* largest rotation amount handed to processRotateLeft
MaxAmount == 10
\* longest byte sequence handed to the static byte transforms
MaxDataLen == 2

(***************************************************************************)
(* Inputs.                                                                 *)
(***************************************************************************)
\* [0x41, 0x42, 0x00, 0x43]
BufAB0C == <<65, 66, 0, 67>>
\* [0x78, 0x56, 0x34, 0x12, 0x41, 0x42, 0x00, 0x43]
BufWide == <<120, 86, 52, 18, 65, 66, 0, 67>>

Zeros(n) == [i \in 1..n |-> 0]

ArrayBuffers == {BufAB0C, BufWide}

\* new DataView(buffer, byteOffset, byteLength) objects a caller may hand in
DataViews ==
    { [buffer |-> BufWide, byteOffset |-> 0, byteLength |-> 4],
      [buffer |-> BufWide, byteOffset |-> 4, byteLength |-> 4],
      [buffer |-> BufAB0C, byteOffset |-> 1, byteLength |-> 2] }

\* the byte offsets assigned to byteOffset
ByteOffsets == {0, 1, 4, 8}

Max(a, b) == IF a >= b THEN a ELSE b
Min(a, b) == IF a <= b THEN a ELSE b

(***************************************************************************)
(* Errors.  A call ends with err.name = "none" or with the thrown error.   *)
(***************************************************************************)
NoError == [name |-> "none", bytesReq |-> 0, bytesAvail |-> 0]
RangeError == [name |-> "RangeError", bytesReq |-> 0, bytesAvail |-> 0]

\* KaitaiEOFError = function(bytesReq, bytesAvail)
KaitaiEOFError(bytesReq, bytesAvail) ==
    [name |-> "KaitaiEOFError", bytesReq |-> bytesReq, bytesAvail |-> bytesAvail]

(***************************************************************************)
(* The cursor as a record, for the accessors that the constructor and      *)
(* _trimAlloc call.                                                        *)
(***************************************************************************)
Self == [_buffer |-> _buffer, _byteOffset |-> _byteOffset,
         _byteLength |-> _byteLength, _dataView |-> _dataView]

\* new DataView(buffer, byteOffset): throws RangeError unless
\* 0 <= byteOffset <= buffer.byteLength; spans the rest of the buffer
DataViewOk(buffer, byteOffset) == byteOffset >= 0 /\ byteOffset <= Len(buffer)

NewDataView(buffer, byteOffset) ==
    [buffer |-> buffer, byteOffset |-> byteOffset,
     byteLength |-> Len(buffer) - byteOffset]

\* get byteLength
byteLengthOf(s) == s._byteLength - s._byteOffset

byteLength == byteLengthOf(Self)

\* set buffer(v): the assignments made before new DataView throws are kept
setBufferOf(s, v) ==
    IF DataViewOk(v, s._byteOffset)
    THEN [s |-> [s EXCEPT !._buffer = v,
                          !._dataView = NewDataView(v, s._byteOffset),
                          !._byteLength = Len(v)],
          err |-> NoError]
    ELSE [s |-> [s EXCEPT !._buffer = v], err |-> RangeError]

\* set byteOffset(v) without its last line, this._byteLength = ...
setByteOffsetKeepLength(s, v) ==
    IF DataViewOk(s._buffer, v)
    THEN [s |-> [s EXCEPT !._byteOffset = v,
                          !._dataView = NewDataView(s._buffer, v)],
          err |-> NoError]
    ELSE [s |-> [s EXCEPT !._byteOffset = v], err |-> RangeError]

\* set byteOffset(v)
setByteOffsetOf(s, v) ==
    IF DataViewOk(s._buffer, v)
    THEN [s |-> [s EXCEPT !._byteOffset = v,
                          !._dataView = NewDataView(s._buffer, v),
                          !._byteLength = Len(s._buffer)],
          err |-> NoError]
    ELSE [s |-> [s EXCEPT !._byteOffset = v], err |-> RangeError]

\* set dataView(v): v is a valid DataView, so new DataView cannot throw
setDataViewOf(s, v) ==
    [s |-> [_byteOffset |-> v.byteOffset,
            _buffer |-> v.buffer,
            _dataView |-> NewDataView(v.buffer, v.byteOffset),
            _byteLength |-> v.byteOffset + v.byteLength],
     err |-> NoError]

\* KaitaiStream.prototype._trimAlloc
trimAllocOf(s) ==
    IF s._byteLength = Len(s._buffer)
    THEN [s |-> s, err |-> NoError]
    ELSE IF s._byteLength > Len(s._buffer)
    THEN \* new Uint8Array(this._buffer, 0, dst.length) does not fit
         [s |-> s, err |-> RangeError]
    ELSE setBufferOf(s, SubSeq(s._buffer, 1, s._byteLength))

(***************************************************************************)
(* Construction.                                                           *)
(***************************************************************************)
\* the fields before the constructor runs its accessor
Blank(byteOffset) ==
    [_buffer |-> <<>>, _byteOffset |-> byteOffset, _byteLength |-> 0,
     _dataView |-> NewDataView(<<>>, 0)]

\* new KaitaiStream(arrayBuffer, byteOffset), arrayBuffer an ArrayBuffer
FromArrayBuffer(arrayBuffer, byteOffset) ==
    setBufferOf(Blank(byteOffset), arrayBuffer)

\* new KaitaiStream(view, byteOffset), view a DataView
FromDataView(v, byteOffset) ==
    LET r == setDataViewOf(Blank(byteOffset), v)
    IN  [s |-> [r.s EXCEPT !._byteOffset = r.s._byteOffset + byteOffset],
         err |-> r.err]

\* new KaitaiStream(size, byteOffset), size a number: size || 1 bytes of zero
FromSize(size, byteOffset) ==
    setBufferOf(Blank(byteOffset), Zeros(IF size = 0 THEN 1 ELSE size))

Constructions ==
    { FromArrayBuffer(b, o) : b \in ArrayBuffers, o \in 0..MaxOffset }
    \cup { FromDataView(v, o) : v \in DataViews, o \in 0..MaxOffset }
    \cup { FromSize(n, o) : n \in 0..MaxSize, o \in 0..MaxOffset }

\* the record of a call: what it was given, the position it started from,
\* the error it threw and the value it returned
CallFrom(op, args, from, err, ret) ==
    [op |-> op, args |-> args, from |-> from, err |-> err, ret |-> ret]

Call(op, args, err, ret) == CallFrom(op, args, position, err, ret)

Init ==
    \E c \in Constructions :
        /\ c.err = NoError
        /\ byteLengthOf(c.s) >= 0
        /\ _buffer = c.s._buffer
        /\ _byteOffset = c.s._byteOffset
        /\ _byteLength = c.s._byteLength
        /\ _dataView = c.s._dataView
        /\ position = 0
        /\ last = CallFrom("new", <<>>, 0, NoError, <<>>)

\* the cursor takes the fields of s
Becomes(s) ==
    /\ _buffer' = s._buffer
    /\ _byteOffset' = s._byteOffset
    /\ _byteLength' = s._byteLength
    /\ _dataView' = s._dataView

Attached == <<_buffer, _byteOffset, _byteLength, _dataView>>

(***************************************************************************)
(* Stream positioning.                                                     *)
(***************************************************************************)
\* KaitaiStream.prototype.isEof
isEof == position >= byteLength

\* a JavaScript number handed to seek: finite, or NaN, or an infinity
SeekArgs ==
    { [kind |-> "finite", n |-> n] : n \in (-1)..MaxSeek }
    \cup { [kind |-> k, n |-> 0] : k \in {"NaN", "+Infinity", "-Infinity"} }

\* Math.min(this.byteLength, pos)
MathMin(len, pos) ==
    CASE pos.kind = "NaN" -> pos
      [] pos.kind = "+Infinity" -> [kind |-> "finite", n |-> len]
      [] pos.kind = "-Infinity" -> pos
      [] OTHER -> [kind |-> "finite", n |-> Min(len, pos.n)]

\* Math.max(0, x)
MathMax0(x) ==
    CASE x.kind = "NaN" -> x
      [] x.kind = "+Infinity" -> x
      [] x.kind = "-Infinity" -> [kind |-> "finite", n |-> 0]
      [] OTHER -> [kind |-> "finite", n |-> Max(0, x.n)]

\* seek without the lower clamp: Math.min(this.byteLength, pos) alone
seekPositionNoFloor(len, pos) ==
    LET npos == MathMin(len, pos)
    IN  IF npos.kind # "finite" THEN 0 ELSE npos.n

\* seek testing its argument, not the clamped value, for NaN and infinity
seekPositionArgTest(len, pos) ==
    IF pos.kind # "finite" THEN 0 ELSE Max(0, Min(len, pos.n))

\* the position seek(pos) assigns
seekPosition(len, pos) ==
    LET npos == MathMax0(MathMin(len, pos))
    IN  IF npos.kind # "finite" THEN 0 ELSE npos.n

\* KaitaiStream.prototype.seek
seek ==
    \E pos \in SeekArgs :
        /\ position' = seekPosition(byteLength, pos)
        \* seek does not read the position it starts from
        /\ last' = CallFrom("seek", pos, 0, NoError, <<>>)
        /\ UNCHANGED Attached

(***************************************************************************)
(* Fixed-width numeric readers: this._dataView.getX(this.position, le)     *)
(* and then this.position += width.                                        *)
(***************************************************************************)
\* DataView.prototype.getX: RangeError unless the width fits in the view
DataViewHolds(view, pos, width) == pos >= 0 /\ pos + width <= view.byteLength

\* the bytes getX reads, in buffer order
DataViewBytes(view, pos, width) ==
    SubSeq(view.buffer, view.byteOffset + pos + 1, view.byteOffset + pos + width)

Reverse(s) == [i \in 1..Len(s) |-> s[Len(s) + 1 - i]]

\* an unsigned integer from its bytes, most significant first
RECURSIVE UintBE(_)
UintBE(bytes) ==
    IF bytes = <<>> THEN 0
    ELSE 256 * UintBE(SubSeq(bytes, 1, Len(bytes) - 1)) + bytes[Len(bytes)]

\* IEEE 754 binary32 from its bytes, most significant first:
\* <<sign, biased exponent, fraction>>
Float32BE(b) ==
    << b[1] \div 128,
       (b[1] % 128) * 2 + b[2] \div 128,
       (b[2] % 128) * 65536 + b[3] * 256 + b[4] >>

\* IEEE 754 binary64 from its bytes, most significant first:
\* <<sign, biased exponent, fraction bits 51..32, fraction bits 31..16,
\*   fraction bits 15..0>>
Float64BE(b) ==
    << b[1] \div 128,
       (b[1] % 128) * 16 + b[2] \div 16,
       (b[2] % 16) * 65536 + b[3] * 256 + b[4],
       b[5] * 256 + b[6],
       b[7] * 256 + b[8] >>

\* the value getUintN / getFloatN decodes from the bytes it read
Decode(kind, bytes, littleEndian) ==
    LET be == IF littleEndian THEN Reverse(bytes) ELSE bytes
    IN  CASE kind = "U" -> << UintBE(be) >>
          [] kind = "F" /\ Len(be) = 4 -> Float32BE(be)
          [] OTHER -> Float64BE(be)

\* the shared body of the readers
ReadNumber(op, args, kind, width, littleEndian) ==
    /\ IF DataViewHolds(_dataView, position, width)
       THEN /\ position' = position + width
            /\ last' = Call(op, args, NoError,
                            Decode(kind, DataViewBytes(_dataView, position, width),
                                   littleEndian))
       ELSE /\ position' = position
            /\ last' = Call(op, args, RangeError, <<>>)
    /\ UNCHANGED Attached

readU1 == ReadNumber("readU1", <<>>, "U", 1, FALSE)
readU2le == ReadNumber("readU2le", <<>>, "U", 2, TRUE)
readU4le == ReadNumber("readU4le", <<>>, "U", 4, TRUE)
readU2be == ReadNumber("readU2be", <<>>, "U", 2, FALSE)
readU4be == ReadNumber("readU4be", <<>>, "U", 4, FALSE)
readF4be == ReadNumber("readF4be", <<>>, "F", 4, FALSE)
readF8be == ReadNumber("readF8be", <<>>, "F", 8, FALSE)
readF4le == ReadNumber("readF4le", <<>>, "F", 4, TRUE)
readF8le == ReadNumber("readF8le", <<>>, "F", 8, TRUE)

\* the e of readFloat32(e) / readFloat64(e): null, true or false
EndianArgs == {"null", "true", "false"}

\* e == null ? this.endianness : e; an instance has no endianness property
\* (it is set on the constructor), so null reads big-endian
LittleEndianOf(e) == e = "true"

readFloat32 ==
    \E e \in EndianArgs : ReadNumber("readFloat32", e, "F", 4, LittleEndianOf(e))

readFloat64 ==
    \E e \in EndianArgs : ReadNumber("readFloat64", e, "F", 8, LittleEndianOf(e))

(***************************************************************************)
(* Byte arrays.                                                            *)
(***************************************************************************)
\* new Uint8Array(buffer, byteOffset, length): RangeError unless it fits
Uint8ArrayOk(buffer, byteOffset, length) ==
    byteOffset >= 0 /\ length >= 0 /\ byteOffset + length <= Len(buffer)

\* mapUint8Array mapping from this.position, byteOffset forgotten
mapUint8ArrayNoOffset(pos, length) ==
    IF pos + length > byteLength
    THEN [position |-> pos, err |-> KaitaiEOFError(length, byteLength - pos),
          ret |-> <<>>]
    ELSE IF ~Uint8ArrayOk(_buffer, pos, length)
    THEN [position |-> pos, err |-> RangeError, ret |-> <<>>]
    ELSE [position |-> pos + length, err |-> NoError,
          ret |-> SubSeq(_buffer, pos + 1, pos + length)]

\* KaitaiStream.prototype.mapUint8Array, from position pos:
\* the position after, the error thrown and the array returned
mapUint8Array(pos, length) ==
    IF pos + length > byteLength
    THEN [position |-> pos, err |-> KaitaiEOFError(length, byteLength - pos),
          ret |-> <<>>]
    ELSE IF ~Uint8ArrayOk(_buffer, _byteOffset + pos, length)
    THEN [position |-> pos, err |-> RangeError, ret |-> <<>>]
    ELSE [position |-> pos + length, err |-> NoError,
          ret |-> SubSeq(_buffer, _byteOffset + pos + 1, _byteOffset + pos + length)]

\* KaitaiStream.prototype.readBytes
readBytes ==
    \E len \in 0..MaxLen :
        LET r == mapUint8Array(position, len)
        IN  /\ position' = r.position
            /\ last' = Call("readBytes", len, r.err, r.ret)
            /\ UNCHANGED Attached

\* KaitaiStream.prototype.readBytesFull
readBytesFull ==
    LET r == mapUint8Array(position, byteLength - position)
    IN  /\ position' = r.position
        /\ last' = Call("readBytesFull", <<>>, r.err, r.ret)
        /\ UNCHANGED Attached

(***************************************************************************)
(* Strings.  A string is the sequence of its character codes.              *)
(***************************************************************************)
chunk_size == 32768

\* the encoding arguments tried: null (ASCII), and a label no decoder knows
NullEncoding == "null"
Encodings == {NullEncoding, "x-unknown"}

\* String.fromCharCode.apply(null, chunk)
FromCharCodes(chunk) == [i \in 1..Len(chunk) |-> chunk[i]]

\* KaitaiStream.createStringFromArray: the chunks from index i on, joined
RECURSIVE createStringFrom(_, _)
createStringFrom(array, i) ==
    IF i >= Len(array) THEN <<>>
    ELSE FromCharCodes(SubSeq(array, i + 1, Min(Len(array), i + chunk_size)))
         \o createStringFrom(array, i + chunk_size)

createStringFromArray(array) == createStringFrom(array, 0)

\* what a decoder throws for a label it does not know: RangeError from
\* new TextDecoder(label), Error from iconv-lite
UnknownEncodingErrors ==
    {RangeError, [name |-> "Error", bytesReq |-> 0, bytesAvail |-> 0]}

\* KaitaiStream.arrayToString: the outcomes [err, ret]
arrayToString(arr, encoding) ==
    IF encoding = NullEncoding \/ encoding = "ASCII"
    THEN {[err |-> NoError, ret |-> createStringFromArray(arr)]}
    ELSE {[err |-> e, ret |-> <<>>] : e \in UnknownEncodingErrors}

\* KaitaiStream.prototype.readStrEos
readStrEos ==
    \E encoding \in Encodings :
        LET r == mapUint8Array(position, byteLength - position)
        IN  /\ position' = r.position
            /\ IF r.err # NoError
               THEN last' = Call("readStrEos", encoding, r.err, <<>>)
               ELSE \E d \in arrayToString(r.ret, encoding) :
                        last' = Call("readStrEos", encoding, d.err, d.ret)
            /\ UNCHANGED Attached

\* KaitaiStream.prototype.readStrByteLimit
readStrByteLimit ==
    \E length \in 0..MaxLen, encoding \in Encodings :
        LET r == mapUint8Array(position, length)
            args == [length |-> length, encoding |-> encoding]
        IN  /\ position' = r.position
            /\ IF r.err # NoError
               THEN last' = Call("readStrByteLimit", args, r.err, <<>>)
               ELSE \E d \in arrayToString(r.ret, encoding) :
                        last' = Call("readStrByteLimit", args, d.err, d.ret)
            /\ UNCHANGED Attached

\* the terminator bytes tried
Terminators == {0, 67}

\* u8[i] of new Uint8Array(this._buffer, this._byteOffset + this.position):
\* -1 stands for undefined, an index past the array
U8At(i) ==
    IF _byteOffset + position + i < Len(_buffer)
    THEN _buffer[_byteOffset + position + i + 1]
    ELSE -1

\* for (var i = 0; i < blen && u8[i] != terminator; i++);
ScanStop(blen, terminator) ==
    LET hits == { i \in 0..(blen - 1) : U8At(i) = terminator }
    IN  IF hits = {} THEN Max(blen, 0)
        ELSE CHOOSE i \in hits : \A j \in hits : i <= j

\* the error of: throw "End of stream reached, but no terminator " + term + ...
\* term is bound nowhere, so evaluating the message throws ReferenceError
TerminatorThrow == [name |-> "ReferenceError", bytesReq |-> 0, bytesAvail |-> 0]

\* KaitaiStream.prototype.readStrz
readStrz ==
    \E encoding \in Encodings, terminator \in Terminators,
       include \in BOOLEAN, consume \in BOOLEAN, eosError \in BOOLEAN :
        LET args == [encoding |-> encoding, terminator |-> terminator,
                     include |-> include, consume |-> consume,
                     eosError |-> eosError]
            blen == byteLength - position
            i == ScanStop(blen, terminator)
            r == mapUint8Array(position,
                               IF i # blen /\ include THEN i + 1 ELSE i)
            after == IF i # blen /\ consume THEN r.position + 1 ELSE r.position
        IN  /\ UNCHANGED Attached
            /\ IF ~Uint8ArrayOk(_buffer, _byteOffset + position, 0)
               THEN /\ position' = position
                    /\ last' = Call("readStrz", args, RangeError, <<>>)
               ELSE IF i = blen /\ eosError
               THEN /\ position' = position
                    /\ last' = Call("readStrz", args, TerminatorThrow, <<>>)
               ELSE IF r.err # NoError
               THEN /\ position' = position
                    /\ last' = Call("readStrz", args, r.err, <<>>)
               ELSE /\ position' = after
                    /\ \E d \in arrayToString(r.ret, encoding) :
                           last' = Call("readStrz", args, d.err, d.ret)

(***************************************************************************)
(* Reattachment: the buffer, byteOffset and dataView accessors.  The values *)
(* assigned are those the accessor accepts: an assignment whose            *)
(* new DataView throws is a caller's error that the model does not follow. *)
(***************************************************************************)
\* this.buffer = v
setBuffer ==
    \E v \in ArrayBuffers \cup {Zeros(MaxSize)} :
        LET r == setBufferOf(Self, v)
        IN  /\ r.err = NoError
            /\ Becomes(r.s)
            /\ last' = Call("set buffer", v, r.err, <<>>)
            /\ UNCHANGED position

\* this.byteOffset = v
setByteOffset ==
    \E v \in ByteOffsets :
        LET r == setByteOffsetOf(Self, v)
        IN  /\ r.err = NoError
            /\ Becomes(r.s)
            /\ last' = Call("set byteOffset", v, r.err, <<>>)
            /\ UNCHANGED position

\* this.dataView = v
setDataView ==
    \E v \in DataViews :
        LET r == setDataViewOf(Self, v)
        IN  /\ r.err = NoError
            /\ Becomes(r.s)
            /\ last' = Call("set dataView", v, r.err, <<>>)
            /\ UNCHANGED position

\* reading this.buffer: _trimAlloc, then the buffer
getBuffer ==
    LET r == trimAllocOf(Self)
    IN  /\ r.err = NoError
        /\ Becomes(r.s)
        /\ last' = Call("get buffer", <<>>, r.err,
                        IF r.err = NoError THEN r.s._buffer ELSE <<>>)
        /\ UNCHANGED position

(***************************************************************************)
(* Byte array processing: static functions of bytes, no cursor involved.   *)
(***************************************************************************)
\* the byte values tried
SampleBytes == {0, 1, 129, 165, 255}

\* the sequences over S of length 0..n
SeqsUpTo(S, n) == UNION { [1..k -> S] : k \in 0..n }

ByteSeqs == SeqsUpTo(SampleBytes, MaxDataLen)

\* the keys handed to processXorMany
KeySeqs == SeqsUpTo({1, 255}, MaxDataLen) \ {<<>>}

\* a | b and a ^ b on non-negative integers
RECURSIVE BitOr(_, _)
BitOr(a, b) ==
    IF a = 0 THEN b
    ELSE IF b = 0 THEN a
    ELSE (IF a % 2 = 1 \/ b % 2 = 1 THEN 1 ELSE 0) + 2 * BitOr(a \div 2, b \div 2)

RECURSIVE BitXor(_, _)
BitXor(a, b) ==
    IF a = 0 THEN b
    ELSE IF b = 0 THEN a
    ELSE (IF a % 2 # b % 2 THEN 1 ELSE 0) + 2 * BitXor(a \div 2, b \div 2)

\* (x << n) & 0xff for a byte x: << shifts by n modulo 32 within 32 bits, and
\* the mask keeps bits 0..7, which a shift by 8 or more leaves zero
ShlLowByte(x, n) ==
    LET s == n % 32
    IN  IF s >= 8 THEN 0 ELSE (x * 2^s) % 256

\* x >> n for a byte x and 0 <= n < 32
Shr(x, n) == x \div 2^n

\* x & mask for a mask of the form 2^k - 1 (two's complement x)
AndLowMask(x, mask) == x % (mask + 1)

\* the thrown string "unable to rotate group of N bytes yet"
UnableToRotate ==
    [name |-> "unable to rotate group", bytesReq |-> 0, bytesAvail |-> 0]

\* one byte of KaitaiStream.processRotateLeft with groupSize 1
rotateByte(b, amount, groupSize) ==
    LET mask == groupSize * 8 - 1
        antiAmount == AndLowMask(-amount, mask)
    IN  BitOr(ShlLowByte(b, amount), Shr(b, antiAmount)) % 256

\* a call whose arguments are drawn and that has not run yet
Pending == [name |-> "pending", bytesReq |-> 0, bytesAvail |-> 0]

RotateArgs == [data : ByteSeqs, amount : 0..MaxAmount, groupSize : {1, 2}]
XorOneArgs == [data : ByteSeqs, key : SampleBytes]
XorManyArgs == [data : ByteSeqs, key : KeySeqs]

StaticCalls ==
    { CallFrom("processRotateLeft", a, 0, Pending, <<>>) : a \in RotateArgs }
    \cup { CallFrom("processXorOne", a, 0, Pending, <<>>) : a \in XorOneArgs }
    \cup { CallFrom("processXorMany", a, 0, Pending, <<>>) : a \in XorManyArgs }

\* KaitaiStream.processRotateLeft
processRotateLeft ==
    /\ last.op = "processRotateLeft" /\ last.err = Pending
    /\ LET data == last.args.data
           amount == last.args.amount
           groupSize == last.args.groupSize
       IN  IF groupSize # 1
           THEN last' = [last EXCEPT !.err = UnableToRotate]
           ELSE last' = [last EXCEPT !.err = NoError,
                                     !.ret = [i \in 1..Len(data) |->
                                                rotateByte(data[i], amount, groupSize)]]
    /\ UNCHANGED <<Attached, position>>

\* KaitaiStream.processXorOne
processXorOne ==
    /\ last.op = "processXorOne" /\ last.err = Pending
    /\ LET data == last.args.data
           key == last.args.key
       IN  last' = [last EXCEPT !.err = NoError,
                                !.ret = [i \in 1..Len(data) |->
                                           BitXor(data[i], key) % 256]]
    /\ UNCHANGED <<Attached, position>>

\* the key index processXorMany uses for data[i]: ki++, back to 0 at kl
RECURSIVE KeyIndex(_, _)
KeyIndex(i, kl) ==
    IF i = 0 THEN 0
    ELSE LET ki == KeyIndex(i - 1, kl) + 1
         IN  IF ki >= kl THEN 0 ELSE ki

\* KaitaiStream.processXorMany
processXorMany ==
    /\ last.op = "processXorMany" /\ last.err = Pending
    /\ LET data == last.args.data
           key == last.args.key
       IN  last' = [last EXCEPT !.err = NoError,
                                !.ret = [i \in 1..Len(data) |->
                                           BitXor(data[i],
                                                  key[KeyIndex(i - 1, Len(key)) + 1]) % 256]]
    /\ UNCHANGED <<Attached, position>>

Next ==
    \/ seek
    \/ readU1 \/ readU2le \/ readU4le \/ readU2be \/ readU4be
    \/ readF4be \/ readF8be \/ readF4le \/ readF8le
    \/ readFloat32 \/ readFloat64
    \/ readBytes \/ readBytesFull
    \/ readStrEos \/ readStrByteLimit \/ readStrz
    \/ setBuffer \/ setByteOffset \/ setDataView \/ getBuffer

Spec == Init /\ [][Next]_vars

(***************************************************************************)
(* The static byte transforms: the arguments of one call are drawn, beside *)
(* a cursor made by new KaitaiStream(), and the call runs.                 *)
(***************************************************************************)
InitStatic ==
    LET c == FromSize(0, 0)
    IN  /\ _buffer = c.s._buffer
        /\ _byteOffset = c.s._byteOffset
        /\ _byteLength = c.s._byteLength
        /\ _dataView = c.s._dataView
        /\ position = 0
        /\ last \in StaticCalls

NextStatic == processRotateLeft \/ processXorOne \/ processXorMany

SpecStatic == InitStatic /\ [][NextStatic]_vars
(***************************************************************************)
(* Properties.                                                             *)
(***************************************************************************)
\* byte k of the logical view: buffer index byteOffset + k
LogicalByte(k) == _buffer[_byteOffset + k + 1]

\* bytes [from, to) of the logical view
LogicalBytes(from, to) == [k \in 1..(to - from) |-> LogicalByte(from + k - 1)]

NumericReaders ==
    {"readU1", "readU2le", "readU2be", "readU4le", "readU4be",
     "readF4le", "readF4be", "readF8le", "readF8be"}

WidthOf(op) ==
    CASE op = "readU1" -> 1
      [] op \in {"readU2le", "readU2be"} -> 2
      [] op \in {"readF8le", "readF8be"} -> 8
      [] OTHER -> 4

Reattachments == {"set buffer", "set byteOffset", "set dataView"}

\* C1: in every reachable state 0 <= position <= logicalLength, where
\* logicalLength is byteLength = _byteLength - _byteOffset.
C1_PositionWithinView == 0 <= position /\ position <= byteLength

\* C2: a fixed-width numeric reader of width w called with fewer than w
\* bytes between position and logicalLength fails with KaitaiEOFError
\* carrying requested = w and available = logicalLength - position.
C2_NumericReadPastEndIsEOF ==
    (last.op \in NumericReaders /\ byteLength - last.from < WidthOf(last.op))
        => last.err = KaitaiEOFError(WidthOf(last.op), byteLength - last.from)

\* the relative offsets, from position p, of the bytes of the logical view
\* equal to terminator
TerminatorOffsets(p, terminator) ==
    { i \in 0..(byteLength - p - 1) : LogicalByte(p + i) = terminator }

FirstOf(S) == CHOOSE i \in S : \A j \in S : i <= j

\* C3: readStrz at position p with the first terminator at relative offset
\* i returns bytes [p, p+i) (include false) or [p, p+i] (include true) and
\* leaves position p + i (consume false) or p + i + 1 (consume true),
\* whatever include is.
C3_ReadStrzFound ==
    (/\ last.op = "readStrz"
     /\ last.args.encoding = NullEncoding
     /\ last.from <= byteLength
     /\ TerminatorOffsets(last.from, last.args.terminator) # {})
        => LET p == last.from
               i == FirstOf(TerminatorOffsets(p, last.args.terminator))
           IN  /\ last.err = NoError
               /\ last.ret = LogicalBytes(p, IF last.args.include THEN p + i + 1
                                                                  ELSE p + i)
               /\ position = (IF last.args.consume THEN p + i + 1 ELSE p + i)

\* C4: readStrz at position p with no terminator in [p, logicalLength):
\* with eosError it fails with the terminator-not-found error and position
\* stays p; without eosError it returns the decoding of [p, logicalLength)
\* and leaves position = logicalLength, whatever include and consume are.
C4_ReadStrzNotFound ==
    (/\ last.op = "readStrz"
     /\ last.args.encoding = NullEncoding
     /\ last.from <= byteLength
     /\ TerminatorOffsets(last.from, last.args.terminator) = {})
        => IF last.args.eosError
           THEN /\ last.err.name = "End of stream reached, but no terminator found"
                /\ position = last.from
           ELSE /\ last.err = NoError
                /\ last.ret = LogicalBytes(last.from, byteLength)
                /\ position = byteLength

C7_NonFiniteSeeksToZero ==
    (last.op = "seek" /\ last.args.kind # "finite")
        => last.err = NoError /\ position = 0

\* C7 as amended: seek(NaN) and seek(-Infinity) set position to 0 and
\* seek(+Infinity) sets it to max(0, logicalLength); none of them fails.
C7_NonFiniteSeek ==
    (last.op = "seek" /\ last.args.kind # "finite")
        => /\ last.err = NoError
           /\ position = (IF last.args.kind = "+Infinity" THEN Max(0, byteLength)
                                                          ELSE 0)

C7_Witness ==
    /\ last.op = "seek" /\ last.args.kind = "+Infinity"
    /\ byteLength > 0 /\ position = byteLength

\* C8: a numeric reader, readBytes, readStrByteLimit, or readStrz with
\* eosError and no terminator, that fails leaves position where the call
\* found it.
C8_FailedReadKeepsPosition ==
    (/\ last.op \in NumericReaders \cup {"readBytes", "readStrByteLimit", "readStrz"}
     /\ last.err # NoError
     /\ (last.op = "readStrz"
            => /\ last.args.eosError
               /\ last.from <= byteLength
               /\ TerminatorOffsets(last.from, last.args.terminator) = {}))
        => position = last.from

RotateLeft8(b, k) == ((b * 2^k) % 256) + (b \div 2^(8 - k))

\* C10: processRotateLeft(data, amount, 1) returns, for every amount >= 0,
\* a sequence as long as data whose i-th byte is data[i] rotated left by
\* amount mod 8 bits; with any other groupSize it fails with the
\* unsupported-group-size error and returns nothing.
C10_RotateLeft ==
    (last.op = "processRotateLeft" /\ last.err # Pending)
        => IF last.args.groupSize = 1
           THEN /\ last.err = NoError
                /\ Len(last.ret) = Len(last.args.data)
                /\ \A i \in 1..Len(last.args.data) :
                       last.ret[i] = RotateLeft8(last.args.data[i],
                                                 last.args.amount % 8)
           ELSE last.err = UnableToRotate /\ last.ret = <<>>

\* an unsigned integer from its bytes, least significant first
RECURSIVE UintLSBFirst(_)
UintLSBFirst(bytes) ==
    IF bytes = <<>> THEN 0
    ELSE bytes[1] + 256 * UintLSBFirst(Tail(bytes))

\* the value a reader named op decodes from bytes given in stream order
ValueOf(op, bytes) ==
    LET msbFirst == IF op \in {"readU2le", "readU4le", "readF4le", "readF8le"}
                    THEN [i \in 1..Len(bytes) |-> bytes[Len(bytes) + 1 - i]]
                    ELSE bytes
    IN  CASE op \in {"readF4le", "readF4be"} -> Float32BE(msbFirst)
          [] op \in {"readF8le", "readF8be"} -> Float64BE(msbFirst)
          [] OTHER -> << UintLSBFirst([i \in 1..Len(bytes) |->
                                          msbFirst[Len(bytes) + 1 - i]]) >>

\* C11: a numeric reader of width w called at position p with at least w
\* bytes left in the logical view sets position to p + w, changes no other
\* cursor state, and returns the value decoded from view bytes [p, p+w) in
\* the byte order its name gives (78 56 34 12: readU4le 0x12345678,
\* readU4be 0x78563412).
C11_NumericRead ==
    [][ (/\ last'.op \in NumericReaders
         /\ position >= 0
         /\ byteLength - position >= WidthOf(last'.op))
            => /\ last'.err = NoError
               /\ position' = position + WidthOf(last'.op)
               /\ UNCHANGED Attached
               /\ last'.ret = ValueOf(last'.op,
                                      LogicalBytes(position,
                                                   position + WidthOf(last'.op)))
      ]_vars
====
